---- MODULE Spec2Model ----
(***************************************************************************)
(* Model of src/subscription_report_process.py: class Clients.            *)
(*                                                                         *)
(* Clients.__init__ runs _process, which reads the transaction file line  *)
(* by line and hands every data line to _process_line.  _process_line     *)
(* updates the yearly revenue (_process_year) and the per-subscriber      *)
(* entry of _client_dict (_set_type).  Once the constructor has returned, *)
(* the accessors get_subscriber_category, get_revenue_numbers,            *)
(* get_revenue_extrema and predict_revenue read the accumulated state.    *)
(*                                                                         *)
(* A line "525082,40662,5340,05/21/1986" is modelled as the tuple of its  *)
(* comma separated fields <<row id, 40662, 5340, <<5, 21, 1986>> >>; the  *)
(* row id, which is never parsed, is kept as the sequence of its          *)
(* characters, so that the first two characters of a line can be taken;   *)
(* the date field is kept as <<month, day, year>> and turned into a day   *)
(* number the way datetime does.  Python dictionaries are modelled as a   *)
(* function together with the sequence of its keys in insertion order    *)
(* (the order in which a dict is iterated).                               *)
(***************************************************************************)
EXTENDS Integers, Sequences, FiniteSets, TLC

VARIABLES pc, client_dict, client_keys, year_dict, year_keys,
          last_three_years, read, ingested, raised, report

vars == <<pc, client_dict, client_keys, year_dict, year_keys,
          last_three_years, read, ingested, raised, report>>

(***************************************************************************)
(* Bounds and inputs                                                       *)
(***************************************************************************)

\* The longest file (number of lines, the header included) the model reads.
MaxLines == 4

\* The header line of the file.
Header == << <<"I", "d">>, "Subscription ID", "Amount (USD)", "Transaction Date">>

\* The data lines a file may hold, in any order and with repeats.
\* Subscriber 1: days 0, +7, +10, +25, +33, +36, +38 and +65 from 12/05/2010,
\* which gives the day-deltas 10, 15, 40 and 29, 29, the deltas 27, 28, 31 and
\* 32 at the limits of the intervals, and deltas that are 0 or negative when
\* a line is repeated or lines come out of order.
\* Subscribers 2, 3 and 4: lines in the years 2011 to 2014 with different
\* amounts.  The row id of the last line starts with the letters Id.
Lines ==
  { <<<<"1">>, 1, 100, <<12, 5, 2010>> >>,
    <<<<"2">>, 1, 100, <<12, 12, 2010>> >>,
    <<<<"3">>, 1, 100, <<12, 15, 2010>> >>,
    <<<<"4">>, 1, 100, <<12, 30, 2010>> >>,
    <<<<"5">>, 1, 100, <<1, 7, 2011>> >>,
    <<<<"6">>, 1, 100, <<1, 10, 2011>> >>,
    <<<<"7">>, 1, 100, <<1, 12, 2011>> >>,
    <<<<"8">>, 1, 100, <<2, 8, 2011>> >>,
    <<<<"9">>, 2, 300, <<3, 1, 2011>> >>,
    <<<<"1", "0">>, 2, 250, <<1, 1, 2012>> >>,
    <<<<"1", "1">>, 2, 170, <<1, 1, 2014>> >>,
    <<<<"1", "2">>, 3, 100, <<1, 1, 2012>> >>,
    <<<<"1", "3">>, 3, 150, <<1, 1, 2013>> >>,
    <<<<"1", "4">>, 4, 0, <<7, 4, 2013>> >>,
    <<<<"I", "d", "1", "5">>, 4, 200, <<1, 1, 2014>> >> }

(***************************************************************************)
(* Helpers: dictionaries and dates                                         *)
(***************************************************************************)

\* d[k] = v, adding the key k when d does not have it.
DictPut(d, k, v) == [x \in (DOMAIN d) \cup {k} |-> IF x = k THEN v ELSE d[x]]

\* The empty dictionary {}.
EmptyDict == [x \in {} |-> 0]

IsLeap(y) == (y % 4 = 0) /\ ((y % 100 # 0) \/ (y % 400 = 0))

DaysInMonth(y, m) ==
  IF m = 2 THEN (IF IsLeap(y) THEN 29 ELSE 28)
  ELSE IF m \in {4, 6, 9, 11} THEN 30 ELSE 31

RECURSIVE DaysBeforeMonth(_, _)
DaysBeforeMonth(y, m) ==
  IF m <= 1 THEN 0 ELSE DaysBeforeMonth(y, m - 1) + DaysInMonth(y, m - 1)

DaysBeforeYear(y) ==
  (y - 1) * 365 + ((y - 1) \div 4) - ((y - 1) \div 100) + ((y - 1) \div 400)

\* datetime.datetime.strptime(date, "%m/%d/%Y"), as the day number of the date.
Strptime(date) ==
  DaysBeforeYear(date[3]) + DaysBeforeMonth(date[3], date[1]) + date[2]

(***************************************************************************)
(* _split_line                                                             *)
(***************************************************************************)

\* (_id, _amount, _year, _date) of a line: fields 1, 2 and 3 (counted from
\* 0) of the line, the year being the tail of the date field.
split_line(line) ==
  [id |-> line[2], amount |-> line[3], year |-> line[4][3], date |-> line[4]]

(***************************************************************************)
(* _process_year                                                           *)
(***************************************************************************)

\* Faulty variant: the amount replaces the running total of the year.
process_year_dict_overwrite(yd, year, amount) == DictPut(yd, year, amount)

\* The dictionary of {year: amount} after a line of that year and amount.
process_year_dict(yd, year, amount) ==
  IF year \in DOMAIN yd THEN DictPut(yd, year, yd[year] + amount)
  ELSE DictPut(yd, year, amount)

\* The keys of the dictionary in insertion order, after that line.
process_year_keys(yd, yk, year) ==
  IF year \in DOMAIN yd THEN yk ELSE Append(yk, year)

\* Faulty variant: a year between the two highest does not shift the middle year down.
process_year_last_noshift(l, year) ==
  IF year \in {l[1], l[2], l[3]} THEN l
  ELSE IF year > l[3] THEN <<l[2], l[3], year>>
  ELSE IF year > l[2] THEN <<l[1], year, l[3]>>
  ELSE IF year > l[1] THEN <<year, l[2], l[3]>>
  ELSE l

\* The last (highest) three years, oldest first, after a line of that year.
process_year_last(l, year) ==
  IF year \in {l[1], l[2], l[3]} THEN l
  ELSE IF year > l[3] THEN <<l[2], l[3], year>>
  ELSE IF year > l[2] THEN <<l[2], year, l[3]>>
  ELSE IF year > l[1] THEN <<year, l[2], l[3]>>
  ELSE l

(***************************************************************************)
(* _set_type                                                               *)
(***************************************************************************)

\* current - previous, in days.
Delta(prev_date, current_date) == Strptime(current_date) - Strptime(prev_date)

\* Faulty variant: a delta of 0 counts as daily.
set_type_zero_daily(type_, prev_date, current_date) ==
  LET delta == Delta(prev_date, current_date) IN
  IF delta > 31 /\ type_ # "daily" /\ type_ # "monthly" THEN "yearly"
  ELSE IF (27 < delta /\ delta < 32) /\ type_ # "daily" THEN "monthly"
  ELSE IF 0 <= delta /\ delta < 28 THEN "daily"
  ELSE "InvalidDateTypeError"

\* Faulty variant: the monthly interval starts at 29 days.
set_type_monthly_from_29(type_, prev_date, current_date) ==
  LET delta == Delta(prev_date, current_date) IN
  IF delta > 31 /\ type_ # "daily" /\ type_ # "monthly" THEN "yearly"
  ELSE IF (28 < delta /\ delta < 32) /\ type_ # "daily" THEN "monthly"
  ELSE IF 0 < delta /\ delta < 28 THEN "daily"
  ELSE "InvalidDateTypeError"

\* Faulty variant: yearly overwrites daily and monthly.
set_type_yearly_overwrites(type_, prev_date, current_date) ==
  LET delta == Delta(prev_date, current_date) IN
  IF delta > 31 THEN "yearly"
  ELSE IF (27 < delta /\ delta < 32) /\ type_ # "daily" THEN "monthly"
  ELSE IF 0 < delta /\ delta < 28 THEN "daily"
  ELSE "InvalidDateTypeError"

\* The value _set_type returns, or "InvalidDateTypeError" when it raises.
set_type(type_, prev_date, current_date) ==
  LET delta == Delta(prev_date, current_date) IN
  IF delta > 31 /\ type_ # "daily" /\ type_ # "monthly" THEN "yearly"
  ELSE IF (27 < delta /\ delta < 32) /\ type_ # "daily" THEN "monthly"
  ELSE IF 0 < delta /\ delta < 28 THEN "daily"
  ELSE "InvalidDateTypeError"

(***************************************************************************)
(* _process_line                                                           *)
(***************************************************************************)

\* Faulty variant: the recently visited date of a known subscriber is not set.
process_line_stale_date(line) ==
  LET s == split_line(line) IN
  /\ year_dict' = process_year_dict(year_dict, s.year, s.amount)
  /\ year_keys' = process_year_keys(year_dict, year_keys, s.year)
  /\ last_three_years' = process_year_last(last_three_years, s.year)
  /\ ingested' = Append(ingested, line)
  /\ IF s.id \in DOMAIN client_dict
     THEN LET item == client_dict[s.id]
              t == set_type(item[1], item[3], s.date) IN
          /\ client_keys' = client_keys
          /\ IF t = "InvalidDateTypeError"
             THEN /\ client_dict' =
                       DictPut(client_dict, s.id, <<item[1], item[2] + 1, item[3]>>)
                  /\ pc' = "raised"
                  /\ raised' = "InvalidDateTypeError"
             ELSE /\ client_dict' =
                       DictPut(client_dict, s.id, <<t, item[2] + 1, item[3]>>)
                  /\ pc' = "loop"
                  /\ raised' = raised
     ELSE /\ client_dict' = DictPut(client_dict, s.id, <<"one-off", 1, s.date>>)
          /\ client_keys' = Append(client_keys, s.id)
          /\ pc' = "loop"
          /\ raised' = raised
  /\ report' = report

\* Faulty variant: _set_type runs before the duration is incremented, so a
\* line that raises leaves the entry of the subscriber as it was.
process_line_type_before_duration(line) ==
  LET s == split_line(line) IN
  /\ year_dict' = process_year_dict(year_dict, s.year, s.amount)
  /\ year_keys' = process_year_keys(year_dict, year_keys, s.year)
  /\ last_three_years' = process_year_last(last_three_years, s.year)
  /\ ingested' = Append(ingested, line)
  /\ IF s.id \in DOMAIN client_dict
     THEN LET item == client_dict[s.id]
              t == set_type(item[1], item[3], s.date) IN
          /\ client_keys' = client_keys
          /\ IF t = "InvalidDateTypeError"
             THEN /\ client_dict' = client_dict
                  /\ pc' = "raised"
                  /\ raised' = "InvalidDateTypeError"
             ELSE /\ client_dict' =
                       DictPut(client_dict, s.id, <<t, item[2] + 1, s.date>>)
                  /\ pc' = "loop"
                  /\ raised' = raised
     ELSE /\ client_dict' = DictPut(client_dict, s.id, <<"one-off", 1, s.date>>)
          /\ client_keys' = Append(client_keys, s.id)
          /\ pc' = "loop"
          /\ raised' = raised
  /\ report' = report

\* _process_line(line): the yearly revenue first, then the subscriber.  For a
\* known subscriber the duration is incremented before _set_type runs, so
\* when _set_type raises the entry keeps its old type and date with the new
\* duration, and the exception leaves _process and the constructor.
process_line(line) ==
  LET s == split_line(line) IN
  /\ year_dict' = process_year_dict(year_dict, s.year, s.amount)
  /\ year_keys' = process_year_keys(year_dict, year_keys, s.year)
  /\ last_three_years' = process_year_last(last_three_years, s.year)
  /\ ingested' = Append(ingested, line)
  /\ IF s.id \in DOMAIN client_dict
     THEN LET item == client_dict[s.id]
              t == set_type(item[1], item[3], s.date) IN
          /\ client_keys' = client_keys
          /\ IF t = "InvalidDateTypeError"
             THEN /\ client_dict' =
                       DictPut(client_dict, s.id, <<item[1], item[2] + 1, item[3]>>)
                  /\ pc' = "raised"
                  /\ raised' = "InvalidDateTypeError"
             ELSE /\ client_dict' =
                       DictPut(client_dict, s.id, <<t, item[2] + 1, s.date>>)
                  /\ pc' = "loop"
                  /\ raised' = raised
     ELSE /\ client_dict' = DictPut(client_dict, s.id, <<"one-off", 1, s.date>>)
          /\ client_keys' = Append(client_keys, s.id)
          /\ pc' = "loop"
          /\ raised' = raised
  /\ report' = report

(***************************************************************************)
(* __init__ and _process                                                   *)
(***************************************************************************)

NoReport == [op |-> "none", raises |-> "", value |-> 0]

Init ==
  /\ pc = "first"
  /\ client_dict = EmptyDict
  /\ client_keys = <<>>
  /\ year_dict = EmptyDict
  /\ year_keys = <<>>
  /\ last_three_years = <<0, 0, 0>>
  /\ read = <<>>
  /\ ingested = <<>>
  /\ raised = ""
  /\ report = NoReport

\* first_line[0:2]: the first two characters of a line, which are those of
\* its first field, or the only character of that field and the comma.
first_two(line) ==
  IF Len(line[1]) >= 2 THEN SubSeq(line[1], 1, 2) ELSE Append(line[1], ",")

\* The first line starts with 'Id': it is skipped.
skip_first_line(line) ==
  /\ first_two(line) = <<"I", "d">>
  /\ read' = <<line>>
  /\ pc' = "loop"
  /\ UNCHANGED <<client_dict, client_keys, year_dict, year_keys,
                 last_three_years, ingested, raised, report>>

\* The first line is the header, or another line that starts with 'Id'.
SkipHeader ==
  /\ pc = "first"
  /\ \/ skip_first_line(Header)
     \/ \E line \in Lines : skip_first_line(line)

\* The header is missing: the first line is processed as data.
FirstLineIsData ==
  /\ pc = "first"
  /\ \E line \in Lines :
       /\ first_two(line) # <<"I", "d">>
       /\ read' = <<line>>
       /\ process_line(line)

\* The file is empty: readline() returns '', which is not the header, and
\* _split_line('') raises IndexError on L[1].
EmptyFile ==
  /\ pc = "first"
  /\ pc' = "raised"
  /\ raised' = "IndexError"
  /\ UNCHANGED <<client_dict, client_keys, year_dict, year_keys,
                 last_three_years, read, ingested, report>>

\* Faulty variant: the loop goes on with the next line after an exception.
NextLine_after_error ==
  /\ pc \in {"loop", "raised"}
  /\ Len(read) < MaxLines
  /\ \E line \in Lines :
       /\ read' = Append(read, line)
       /\ process_line(line)

\* for line in input_file: self._process_line(line)
NextLine ==
  /\ pc = "loop"
  /\ Len(read) < MaxLines
  /\ \E line \in Lines :
       /\ read' = Append(read, line)
       /\ process_line(line)

\* The file is exhausted: _process and the constructor return.
EndOfFile ==
  /\ pc = "loop"
  /\ pc' = "done"
  /\ UNCHANGED <<client_dict, client_keys, year_dict, year_keys,
                 last_three_years, read, ingested, raised, report>>

(***************************************************************************)
(* get_revenue_numbers, get_revenue_extrema, predict_revenue               *)
(***************************************************************************)

\* The tuple (diff, year) of get_revenue_extrema; `at` holds the year, and is
\* empty for the initial tuple (0, 'N/A').
NotAvailable == [diff |-> 0, at |-> <<>>]

Abs(n) == IF n < 0 THEN -n ELSE n

\* Faulty variant: a growth equal to the highest so far replaces it.
extrema_step_ge(yd, acc, prev_year) ==
  LET year_end == prev_year + 1 IN
  IF year_end \in DOMAIN yd
  THEN LET diff == yd[year_end] - yd[prev_year] IN
       IF diff >= 0 /\ diff >= acc.growth.diff
       THEN [acc EXCEPT !.growth = [diff |-> diff, at |-> <<year_end>>]]
       ELSE IF diff < 0 /\ Abs(diff) > Abs(acc.loss.diff)
       THEN [acc EXCEPT !.loss = [diff |-> diff, at |-> <<year_end>>]]
       ELSE acc
  ELSE acc

\* Faulty variant: a year that is not in the dictionary counts with revenue 0.
extrema_step_missing_is_zero(yd, acc, prev_year) ==
  LET year_end == prev_year + 1
      diff == (IF year_end \in DOMAIN yd THEN yd[year_end] ELSE 0) - yd[prev_year] IN
  IF diff >= 0 /\ diff > acc.growth.diff
  THEN [acc EXCEPT !.growth = [diff |-> diff, at |-> <<year_end>>]]
  ELSE IF diff < 0 /\ Abs(diff) > Abs(acc.loss.diff)
  THEN [acc EXCEPT !.loss = [diff |-> diff, at |-> <<year_end>>]]
  ELSE acc

\* One iteration of the loop of get_revenue_extrema, on the key prev_year.
extrema_step(yd, acc, prev_year) ==
  LET year_end == prev_year + 1 IN
  IF year_end \in DOMAIN yd
  THEN LET diff == yd[year_end] - yd[prev_year] IN
       IF diff >= 0 /\ diff > acc.growth.diff
       THEN [acc EXCEPT !.growth = [diff |-> diff, at |-> <<year_end>>]]
       ELSE IF diff < 0 /\ Abs(diff) > Abs(acc.loss.diff)
       THEN [acc EXCEPT !.loss = [diff |-> diff, at |-> <<year_end>>]]
       ELSE acc
  ELSE acc

\* The loop over the keys yk[i..] of the dictionary.
RECURSIVE extrema_loop(_, _, _, _)
extrema_loop(yd, yk, i, acc) ==
  IF i > Len(yk) THEN acc
  ELSE extrema_loop(yd, yk, i + 1, extrema_step(yd, acc, yk[i]))

\* get_revenue_extrema(): the pair (growth_, loss_) that it formats.
get_revenue_extrema(yd, yk) ==
  extrema_loop(yd, yk, 1, [growth |-> NotAvailable, loss |-> NotAvailable])

\* Faulty variant: the span is last_yr - thir_last_yr, without the + 1.
predict_revenue_short_span(yd, l) ==
  LET last_yr == l[3]
      thir_last_yr == l[1] IN
  IF {l[1], l[2], l[3]} \subseteq DOMAIN yd
  THEN [raises |-> "",
        value |-> (yd[last_yr] - yd[l[2]]) * (last_yr - thir_last_yr)
                    + yd[thir_last_yr]]
  ELSE [raises |-> "KeyError", value |-> 0]

\* Faulty variant: a year that is not in the dictionary counts with revenue 0.
predict_revenue_missing_is_zero(yd, l) ==
  LET rev(y) == IF y \in DOMAIN yd THEN yd[y] ELSE 0 IN
  [raises |-> "",
   value |-> (rev(l[3]) - rev(l[2])) * (l[3] - l[1] + 1) + rev(l[1])]

\* predict_revenue(): the number returned, or KeyError when one of the three
\* years is not a key of the dictionary.
predict_revenue(yd, l) ==
  LET last_yr == l[3]
      thir_last_yr == l[1] IN
  IF {l[1], l[2], l[3]} \subseteq DOMAIN yd
  THEN [raises |-> "",
        value |-> (yd[last_yr] - yd[l[2]]) * (last_yr - thir_last_yr + 1)
                    + yd[thir_last_yr]]
  ELSE [raises |-> "KeyError", value |-> 0]

GetRevenueNumbers ==
  /\ pc = "done"
  /\ report' = [op |-> "get_revenue_numbers", raises |-> "", value |-> year_dict]
  /\ UNCHANGED <<pc, client_dict, client_keys, year_dict, year_keys,
                 last_three_years, read, ingested, raised>>

GetRevenueExtrema ==
  /\ pc = "done"
  /\ report' = [op |-> "get_revenue_extrema", raises |-> "",
                value |-> get_revenue_extrema(year_dict, year_keys)]
  /\ UNCHANGED <<pc, client_dict, client_keys, year_dict, year_keys,
                 last_three_years, read, ingested, raised>>

\* Faulty variant: a year that is looked up and missing is stored with the
\* revenue 0, as a dictionary with a default value does.
PredictRevenue_stores_missing_year ==
  /\ pc = "done"
  /\ LET r == predict_revenue(year_dict, last_three_years) IN
       /\ report' = [op |-> "predict_revenue", raises |-> r.raises, value |-> r.value]
       /\ IF r.raises = "KeyError"
          THEN /\ year_dict' = DictPut(year_dict, 0, 0)
               /\ year_keys' = Append(year_keys, 0)
          ELSE UNCHANGED <<year_dict, year_keys>>
  /\ UNCHANGED <<pc, client_dict, client_keys, last_three_years, read,
                 ingested, raised>>

PredictRevenue ==
  /\ pc = "done"
  /\ LET r == predict_revenue(year_dict, last_three_years) IN
       report' = [op |-> "predict_revenue", raises |-> r.raises, value |-> r.value]
  /\ UNCHANGED <<pc, client_dict, client_keys, year_dict, year_keys,
                 last_three_years, read, ingested, raised>>

(***************************************************************************)
(* get_subscriber_category                                                 *)
(***************************************************************************)

\* Faulty variant: the branch for yearly is missing.
unit_of_without_yearly(type_) ==
  IF type_ = "daily" THEN "days"
  ELSE IF type_ = "monthly" THEN "months"
  ELSE "time"

\* The unit generated for a subscription type.
unit_of(type_) ==
  IF type_ = "daily" THEN "days"
  ELSE IF type_ = "monthly" THEN "months"
  ELSE IF type_ = "yearly" THEN "years"
  ELSE "time"

\* The list built by the loop over the items of the dictionary, one entry
\* (key, type, duration, unit) for each key in iteration order.
subscriber_category(cd, ck) ==
  [i \in 1..Len(ck) |->
     <<ck[i], cd[ck[i]][1], cd[ck[i]][2], unit_of(cd[ck[i]][1])>>]

\* Faulty variant: the test for an empty dictionary is missing.
get_subscriber_category_unchecked(cd, ck) ==
  [raises |-> "", value |-> subscriber_category(cd, ck)]

\* get_subscriber_category(): the list returned, or FileNotProcessedError
\* when the dictionary of clients is {}.
get_subscriber_category(cd, ck) ==
  IF cd = EmptyDict
  THEN [raises |-> "FileNotProcessedError", value |-> <<>>]
  ELSE [raises |-> "", value |-> subscriber_category(cd, ck)]

GetSubscriberCategory ==
  /\ pc = "done"
  /\ LET r == get_subscriber_category(client_dict, client_keys) IN
       report' = [op |-> "get_subscriber_category",
                  raises |-> r.raises, value |-> r.value]
  /\ UNCHANGED <<pc, client_dict, client_keys, year_dict, year_keys,
                 last_three_years, read, ingested, raised>>

Next ==
  \/ SkipHeader
  \/ FirstLineIsData
  \/ EmptyFile
  \/ NextLine
  \/ EndOfFile
  \/ GetSubscriberCategory
  \/ GetRevenueNumbers
  \/ GetRevenueExtrema
  \/ PredictRevenue

Spec == Init /\ [][Next]_vars

(***************************************************************************)
(* Properties                                                              *)
(***************************************************************************)

\* The day of each date of Lines, counted by hand from 12/05/2010 on the
\* calendar (2012 is a leap year); the properties measure day-deltas with it.
DayOf(date) ==
  CASE date = <<12, 5, 2010>> -> 0
    [] date = <<12, 12, 2010>> -> 7
    [] date = <<12, 15, 2010>> -> 10
    [] date = <<12, 30, 2010>> -> 25
    [] date = <<1, 7, 2011>> -> 33
    [] date = <<1, 10, 2011>> -> 36
    [] date = <<1, 12, 2011>> -> 38
    [] date = <<2, 8, 2011>> -> 65
    [] date = <<3, 1, 2011>> -> 86
    [] date = <<1, 1, 2012>> -> 392
    [] date = <<1, 1, 2013>> -> 758
    [] date = <<7, 4, 2013>> -> 942
    [] date = <<1, 1, 2014>> -> 1123

\* The step ingests a line (one call of _process_line).
Ingests == Len(ingested') = Len(ingested) + 1

\* The line the step ingests.
Ingested == ingested'[Len(ingested')]

\* The step ingests a line of a subscriber that is already known.
IngestsKnown == Ingests /\ Ingested[2] \in DOMAIN client_dict

\* The day-delta of that line to the subscriber's previous one.
IngestedDelta == DayOf(Ingested[4]) - DayOf(client_dict[Ingested[2]][3])

\* The subscriber's cadence before and after the step.
CadenceBefore == client_dict[Ingested[2]][1]
CadenceAfter == client_dict'[Ingested[2]][1]

\* The days of the lines of subscriber id among the first n lines of the
\* sequence ls, in order.
RECURSIVE DaysIn(_, _, _)
DaysIn(ls, id, n) ==
  IF n = 0 THEN <<>>
  ELSE IF ls[n][2] = id THEN Append(DaysIn(ls, id, n - 1), DayOf(ls[n][4]))
  ELSE DaysIn(ls, id, n - 1)

\* The days of the ingested lines of subscriber id, in the order ingested.
DaysOf(id) == DaysIn(ingested, id, Len(ingested))

\* C1: a subscriber that is daily keeps daily on any further line with a
\* positive day-delta, and one that is monthly keeps monthly on a line with a
\* day-delta above 31; both lines are ingested without an error.
C1_FinerCadenceKept ==
  [][IngestsKnown =>
       /\ (CadenceBefore = "daily" /\ IngestedDelta > 0)
            => (raised' = "" /\ CadenceAfter = "daily")
       /\ (CadenceBefore = "monthly" /\ IngestedDelta > 31)
            => (raised' = "" /\ CadenceAfter = "monthly")]_vars

\* C2: a line of a known subscriber whose day-delta to the previous line of
\* that subscriber is zero or negative raises the error of _set_type, whatever
\* the cadence, and the error ends the pass.
C2_NonPositiveDeltaRaises ==
  [][(IngestsKnown /\ IngestedDelta <= 0)
       => (raised' = "InvalidDateTypeError" /\ pc' = "raised")]_vars

\* C2 witness: a subscriber with an established cadence got a second line with
\* the date of its previous one, and the error was raised.
C2_Witness ==
  /\ raised = "InvalidDateTypeError"
  /\ Len(ingested) >= 3
  /\ LET l == ingested[Len(ingested)] IN
       /\ client_dict[l[2]][3] = l[4]
       /\ client_dict[l[2]][1] = "daily"

\* The sum of the amounts of the first n ingested lines dated in year y.
RECURSIVE AmountIn(_, _)
AmountIn(y, n) ==
  IF n = 0 THEN 0
  ELSE AmountIn(y, n - 1) + (IF ingested[n][4][3] = y THEN ingested[n][3] ELSE 0)

\* The sum of the amounts of the first n ingested lines.
RECURSIVE AmountOfAll(_)
AmountOfAll(n) == IF n = 0 THEN 0 ELSE AmountOfAll(n - 1) + ingested[n][3]

\* The sum of the values of a dictionary.
RECURSIVE SumOfValues(_)
SumOfValues(d) ==
  IF DOMAIN d = {} THEN 0
  ELSE LET k == CHOOSE x \in DOMAIN d : TRUE IN
       d[k] + SumOfValues([x \in (DOMAIN d) \ {k} |-> d[x]])

\* The dictionary d is the revenue by year of the ingested lines.
IsRevenueOfIngested(d) ==
  /\ DOMAIN d = {ingested[i][4][3] : i \in 1..Len(ingested)}
  /\ \A y \in DOMAIN d : d[y] = AmountIn(y, Len(ingested))
  /\ SumOfValues(d) = AmountOfAll(Len(ingested))

\* C3: after successful ingests the yearly revenue has exactly the years of
\* the ingested lines, each with the sum of the amounts of the lines of that
\* year, so its values add up to the sum of all amounts; get_revenue_numbers
\* returns that dictionary.
C3_LedgerIsSumOfIngested ==
  raised = "" =>
    /\ IsRevenueOfIngested(year_dict)
    /\ report.op = "get_revenue_numbers" => IsRevenueOfIngested(report.value)

\* C3 witness: the revenue of a file with two lines in one year and a line in
\* another year was returned.
C3_Witness ==
  /\ report.op = "get_revenue_numbers"
  /\ Len(ingested) >= 3
  /\ Cardinality(DOMAIN year_dict) = 2
  /\ \E y \in DOMAIN year_dict : year_dict[y] = 400

\* The k-th largest element of the set S of years, 0 when S has fewer than k.
KthLargest(S, k) ==
  IF Cardinality(S) < k THEN 0
  ELSE CHOOSE x \in S : Cardinality({z \in S : z > x}) = k - 1

\* The three largest years of S, ascending, with 0 in the unused low slots.
ThreeLargest(S) == <<KthLargest(S, 3), KthLargest(S, 2), KthLargest(S, 1)>>

\* C4: the tracker holds the three largest distinct years of the ledger in
\* ascending order, with the sentinel 0 in the unused lowest slots; no year
\* is in it twice and every entry other than 0 is a key of the ledger.
C4_TrackerHoldsThreeLargest ==
  /\ last_three_years = ThreeLargest(DOMAIN year_dict)
  /\ \A i, j \in 1..3 :
       (i < j /\ last_three_years[j] # 0) => last_three_years[i] < last_three_years[j]
  /\ \A i \in 1..3 :
       last_three_years[i] # 0 => last_three_years[i] \in DOMAIN year_dict

\* C4 witness: four distinct years came in an order that is neither ascending
\* nor descending, and the smallest of them is not kept.
C4_Witness ==
  /\ Cardinality(DOMAIN year_dict) = 4
  /\ year_keys[1] > year_keys[2]
  /\ year_keys[2] < year_keys[3]
  /\ year_keys[4] < year_keys[3]
  /\ last_three_years[1] # 0

\* The forecast of the formula for a ledger d with three years or more.
Forecast(d) ==
  LET y0 == KthLargest(DOMAIN d, 3)
      y1 == KthLargest(DOMAIN d, 2)
      y2 == KthLargest(DOMAIN d, 1) IN
  (d[y2] - d[y1]) * (y2 - y0 + 1) + d[y0]

\* C5: with three distinct years or more in the ledger, predict_revenue
\* returns (r2 - r1) * (y2 - y0 + 1) + r0 for the three largest years
\* y0 < y1 < y2, whatever the order of the lines; the ledger
\* {2012: 100, 2013: 150, 2014: 170} gives 160.
C5_ForecastFormula ==
  (report.op = "predict_revenue" /\ Cardinality(DOMAIN year_dict) >= 3) =>
    /\ report.raises = ""
    /\ report.value = Forecast(year_dict)
    /\ year_dict = (2012 :> 100) @@ (2013 :> 150) @@ (2014 :> 170)
         => report.value = 160

\* C5 witness: the forecast of {2012: 100, 2013: 150, 2014: 170}, ingested with
\* the year 2014 first, was returned.
C5_Witness ==
  /\ report.op = "predict_revenue"
  /\ year_dict = (2012 :> 100) @@ (2013 :> 150) @@ (2014 :> 170)
  /\ year_keys[1] = 2014
  /\ report.value = 160

\* C6, as claimed: with fewer than three distinct years in the ledger
\* predict_revenue fails with the dedicated error InsufficientDataError.
C6_InsufficientDataError ==
  (report.op = "predict_revenue" /\ Cardinality(DOMAIN year_dict) < 3) =>
    report.raises = "InsufficientDataError"

\* C6, amended: with fewer than three distinct years in the ledger
\* predict_revenue returns no number: the lookup of the sentinel year 0 fails
\* with KeyError.
C6_KeyErrorBelowThreeYears ==
  (report.op = "predict_revenue" /\ Cardinality(DOMAIN year_dict) < 3) =>
    report.raises = "KeyError"

\* C6 witness: the forecast was asked of a ledger with two distinct years.
C6_Witness ==
  /\ report.op = "predict_revenue"
  /\ Cardinality(DOMAIN year_dict) = 2
  /\ report.raises = "KeyError"

\* The years Y of the ledger d whose next year Y + 1 is in the ledger too.
PairsOf(d) == {y \in DOMAIN d : y + 1 \in DOMAIN d}

\* revenue[Y + 1] - revenue[Y]
DeltaOf(d, y) == d[y + 1] - d[y]

\* The place of the key y in the iteration order yk of the dictionary.
PlaceOf(yk, y) == CHOOSE i \in 1..Len(yk) : yk[i] = y

\* The pair of P with the largest delta, the first encountered among equals,
\* reported against its later year; the 'not available' value when P is empty.
LargestOf(d, yk, P) ==
  IF P = {} THEN NotAvailable
  ELSE LET y == CHOOSE x \in P :
                  \A z \in P :
                    \/ DeltaOf(d, z) < DeltaOf(d, x)
                    \/ DeltaOf(d, z) = DeltaOf(d, x) /\ PlaceOf(yk, x) <= PlaceOf(yk, z)
       IN [diff |-> DeltaOf(d, y), at |-> <<y + 1>>]

\* The loss tuple names a pair of the ledger with the most negative delta, or
\* is the 'not available' value when no pair has a negative delta.
IsMostNegative(d, loss) ==
  LET N == {y \in PairsOf(d) : DeltaOf(d, y) < 0} IN
  IF N = {} THEN loss = NotAvailable
  ELSE /\ \A y \in N : loss.diff <= DeltaOf(d, y)
       /\ \E y \in N : loss = [diff |-> DeltaOf(d, y), at |-> <<y + 1>>]

\* C7, as claimed: the growth is the pair of consecutive years with the
\* largest non-negative delta (a delta of 0 qualifies, the first encountered
\* among equals) and the loss the pair with the most negative delta, each
\* reported against the later year.
C7_LargestNonNegativeDelta ==
  report.op = "get_revenue_extrema" =>
    /\ report.value.growth =
         LargestOf(year_dict, year_keys,
                   {y \in PairsOf(year_dict) : DeltaOf(year_dict, y) >= 0})
    /\ IsMostNegative(year_dict, report.value.loss)

\* C7, amended: the growth is the pair of consecutive years with the largest
\* delta above 0 (the first encountered among equals); a delta of 0 does not
\* qualify.  The loss is the pair with the most negative delta.  The ledger
\* {2010: 100, 2011: 300, 2012: 250} gives (2011, 200) and (2012, -50).
C7_LargestPositiveDelta ==
  report.op = "get_revenue_extrema" =>
    /\ report.value.growth =
         LargestOf(year_dict, year_keys,
                   {y \in PairsOf(year_dict) : DeltaOf(year_dict, y) > 0})
    /\ IsMostNegative(year_dict, report.value.loss)
    /\ year_dict = (2010 :> 100) @@ (2011 :> 300) @@ (2012 :> 250)
         => /\ report.value.growth = [diff |-> 200, at |-> <<2011>>]
            /\ report.value.loss = [diff |-> -50, at |-> <<2012>>]

\* C7 witness: the extrema of {2010: 100, 2011: 300, 2012: 250} were returned.
C7_Witness ==
  /\ report.op = "get_revenue_extrema"
  /\ year_dict = (2010 :> 100) @@ (2011 :> 300) @@ (2012 :> 250)
  /\ report.value.growth.at = <<2011>>
  /\ report.value.loss.at = <<2012>>

\* C8, as claimed: get_revenue_extrema does not fail, and the growth (the
\* loss) is the 'not available' value exactly when no pair of consecutive
\* years has a non-negative (a negative) delta.
C8_SentinelIffNoQualifyingPair ==
  report.op = "get_revenue_extrema" =>
    /\ report.raises = ""
    /\ (report.value.growth = NotAvailable)
         <=> ({y \in PairsOf(year_dict) : DeltaOf(year_dict, y) >= 0} = {})
    /\ (report.value.loss = NotAvailable)
         <=> ({y \in PairsOf(year_dict) : DeltaOf(year_dict, y) < 0} = {})

\* C8, amended: get_revenue_extrema does not fail, and the growth (the loss)
\* is the 'not available' value exactly when no pair of consecutive years has
\* a delta above 0 (a negative delta).
C8_SentinelIffNoPositiveOrNegativePair ==
  report.op = "get_revenue_extrema" =>
    /\ report.raises = ""
    /\ (report.value.growth = NotAvailable)
         <=> ({y \in PairsOf(year_dict) : DeltaOf(year_dict, y) > 0} = {})
    /\ (report.value.loss = NotAvailable)
         <=> ({y \in PairsOf(year_dict) : DeltaOf(year_dict, y) < 0} = {})

\* C8 witness: the ledger has two pairs of consecutive years, none with a
\* negative delta, and the loss returned is 'not available' while the growth
\* is not.
C8_Witness ==
  /\ report.op = "get_revenue_extrema"
  /\ Cardinality(PairsOf(year_dict)) >= 2
  /\ report.value.loss = NotAvailable
  /\ report.value.growth # NotAvailable

\* C9: the first line of a subscriber creates the entry (one-off, 1, date).
\* On a following line, a subscriber that is one-off or yearly becomes daily
\* for a day-delta of 1..27, monthly for 28..31 and yearly above 31, and a
\* day-delta of 1..27 makes every subscriber daily.  A subscriber with one
\* line is one-off with duration 1, also at the end of the pass, and one whose
\* lines are 29 and 29 days apart is monthly.
C9_CadenceRule ==
  [][/\ Ingests =>
          /\ Ingested[2] \notin DOMAIN client_dict =>
               client_dict'[Ingested[2]] = <<"one-off", 1, Ingested[4]>>
          /\ (IngestsKnown /\ IngestedDelta \in 1..27) =>
               (raised' = "" /\ CadenceAfter = "daily")
          /\ (IngestsKnown /\ CadenceBefore \in {"one-off", "yearly"}) =>
               /\ IngestedDelta \in 28..31 =>
                    (raised' = "" /\ CadenceAfter = "monthly")
               /\ IngestedDelta > 31 =>
                    (raised' = "" /\ CadenceAfter = "yearly")
     /\ Ingests =>
          LET days == DaysIn(ingested', Ingested[2], Len(ingested')) IN
          /\ Len(days) = 1 =>
               client_dict'[Ingested[2]] = <<"one-off", 1, Ingested[4]>>
          /\ (Len(days) = 3 /\ days[2] - days[1] = 29 /\ days[3] - days[2] = 29) =>
               (raised' = "" /\ CadenceAfter = "monthly")
     /\ (pc = "loop" /\ pc' = "done") =>
          \A id \in DOMAIN client_dict' :
            Len(DaysIn(ingested', id, Len(ingested'))) = 1 =>
              (client_dict'[id][1] = "one-off" /\ client_dict'[id][2] = 1)]_vars

\* C9 witness: a subscriber with three lines 29 and 29 days apart is monthly,
\* next to a subscriber with a single line.
C9_Witness ==
  /\ raised = ""
  /\ 1 \in DOMAIN client_dict
  /\ DaysOf(1) = <<7, 36, 65>>
  /\ client_dict[1] = <<"monthly", 3, <<2, 8, 2011>> >>
  /\ \E id \in DOMAIN client_dict : client_dict[id][1] = "one-off"

\* one-off < yearly < monthly < daily
Rank(type_) ==
  CASE type_ = "one-off" -> 0
    [] type_ = "yearly" -> 1
    [] type_ = "monthly" -> 2
    [] type_ = "daily" -> 3

\* C10: along successful ingests the rank of a subscriber's cadence never
\* decreases from one state to the next, and a subscriber with two lines or
\* more is not one-off.
C10_CadenceOnlyFiner ==
  [][raised' = "" =>
       /\ \A id \in DOMAIN client_dict :
            /\ id \in DOMAIN client_dict'
            /\ Rank(client_dict'[id][1]) >= Rank(client_dict[id][1])
       /\ \A id \in DOMAIN client_dict' :
            client_dict'[id][2] >= 2 => client_dict'[id][1] # "one-off"]_vars

\* C10 witness: a subscriber went from one-off to yearly (38 days) and on to
\* daily (27 days).
C10_Witness ==
  /\ raised = ""
  /\ 1 \in DOMAIN client_dict
  /\ DaysOf(1) = <<0, 38, 65>>
  /\ client_dict[1][1] = "daily"

\* C11: get_subscriber_category fails with FileNotProcessedError when no
\* line was ingested (the dictionary of clients is empty, as after a file
\* with the header only), and does not fail once a line was ingested.
C11_NotReadyIffNothingIngested ==
  report.op = "get_subscriber_category" =>
    /\ Len(ingested) = 0 => report.raises = "FileNotProcessedError"
    /\ Len(ingested) >= 1 => (report.raises = "" /\ Len(report.value) >= 1)

\* C11 witness: the categories were asked for after a file with the header
\* only, and the error was raised.
C11_Witness ==
  /\ report.op = "get_subscriber_category"
  /\ ingested = <<>>
  /\ client_dict = EmptyDict
  /\ report.raises = "FileNotProcessedError"

\* The number of lines of subscriber id in the sequence ls.
CountOf(ls, id) == Cardinality({i \in 1..Len(ls) : ls[i][2] = id})

\* The last line of subscriber id in the sequence ls.
LastOf(ls, id) ==
  ls[CHOOSE i \in 1..Len(ls) :
       ls[i][2] = id /\ \A j \in (i + 1)..Len(ls) : ls[j][2] # id]

\* C12: after every successful ingest the duration of each subscriber is the
\* number of lines ingested for it (1 or more) and its date is the date of
\* the last line ingested for it; the subscribers are those of the ingested
\* lines, and no step removes a subscriber.
C12_CountAndLastSeen ==
  [][/\ DOMAIN client_dict \subseteq DOMAIN client_dict'
     /\ (Ingests /\ raised' = "") =>
          /\ DOMAIN client_dict' = {ingested'[i][2] : i \in 1..Len(ingested')}
          /\ \A id \in DOMAIN client_dict' :
               /\ client_dict'[id][2] = CountOf(ingested', id)
               /\ client_dict'[id][2] >= 1
               /\ client_dict'[id][3] = LastOf(ingested', id)[4]]_vars

\* C12 witness: one subscriber has three lines and another has one.
C12_Witness ==
  /\ raised = ""
  /\ \E a, b \in DOMAIN client_dict :
       /\ client_dict[a][2] = 3
       /\ client_dict[a][3] = ingested[Len(ingested)][4]
       /\ client_dict[b][2] = 1

\* C16: the pass ingests the data rows of the file once each and in the order
\* of the file: a first row whose first field is "Id" is the header and is
\* not ingested, and a first row that is not the header is ingested as data
\* before the rows that follow it.
C16_HeaderSkippedRowsInOrder ==
  Len(read) >= 1 =>
    ingested = IF read[1][1] = <<"I", "d">> THEN Tail(read) ELSE read

\* The unit label of each cadence label.
UnitFor(type_) ==
  CASE type_ = "daily" -> "days"
    [] type_ = "monthly" -> "months"
    [] type_ = "yearly" -> "years"
    [] type_ = "one-off" -> "time"

\* C13: get_subscriber_category returns one entry for each distinct
\* subscriber of the ingested lines and no other entry; the entry carries the
\* subscriber's current type and duration, and the unit that goes with the
\* type (daily: days, monthly: months, yearly: years, one-off: time).
C13_OneEntryPerSubscriber ==
  (report.op = "get_subscriber_category" /\ report.raises = "") =>
    LET v == report.value
        ids == {ingested[i][2] : i \in 1..Len(ingested)} IN
    /\ Len(v) = Cardinality(ids)
    /\ {v[i][1] : i \in 1..Len(v)} = ids
    /\ \A i \in 1..Len(v) :
         /\ v[i][2] = client_dict[v[i][1]][1]
         /\ v[i][3] = client_dict[v[i][1]][2]
         /\ v[i][3] = CountOf(ingested, v[i][1])
         /\ v[i][4] = UnitFor(v[i][2])

\* C13 witness: the list returned has a yearly subscriber with 2 years and a
\* one-off subscriber.
C13_Witness ==
  /\ report.op = "get_subscriber_category"
  /\ Len(report.value) = 2
  /\ \E i, j \in 1..2 :
       /\ report.value[i][2] = "yearly" /\ report.value[i][4] = "years"
       /\ report.value[i][3] = 2
       /\ report.value[j][2] = "one-off" /\ report.value[j][4] = "time"

\* C14: once the pass is over, no step (that is, no report, whether it returns
\* or raises) changes the dictionary of clients, the dictionary of years or
\* the list of the last three years, and a report called again right after
\* itself gives the same result.
C14_ReportsReadOnly ==
  [][pc = "done" =>
       /\ UNCHANGED <<client_dict, client_keys, year_dict, year_keys,
                      last_three_years>>
       /\ report'.op = report.op => report' = report]_vars

\* C14 witness: predict_revenue was called after a pass over lines of fewer
\* than three years and raised; the dictionaries still hold the pass's data.
C14_Witness ==
  /\ pc = "done"
  /\ report.op = "predict_revenue"
  /\ report.raises = "KeyError"
  /\ Len(ingested) >= 2
  /\ Len(year_keys) = 2
  /\ Len(client_keys) >= 1

\* C15: once an exception has left the pass, nothing happens any more: no
\* further line is read or processed, the exception stays, and no report is
\* made; and in a state with an exception no report has been made.
C15_ErrorAbortsPass ==
  [][/\ raised # "" =>
          UNCHANGED <<read, ingested, client_dict, client_keys, year_dict,
                      year_keys, last_three_years, raised, report>>
     /\ raised' # "" => report' = NoReport]_vars

\* C15 witness: the third line processed raised InvalidDateTypeError while
\* the file could still hold a further line; no report has been made.
C15_Witness ==
  /\ raised = "InvalidDateTypeError"
  /\ pc = "raised"
  /\ Len(ingested) = 3
  /\ Len(read) < MaxLines
  /\ report = NoReport

\* The data rows of the file read so far: every line but a header line
\* (Id,Subscription ID,Amount (USD),Transaction Date) in the first place.
RowsOf(rd) ==
  IF Len(rd) >= 1 /\ rd[1][1] = <<"I", "d">> THEN Tail(rd) ELSE rd

\* The sum of the amounts of the lines of year y among the first n of ls.
RECURSIVE AmountOfYear(_, _, _)
AmountOfYear(ls, y, n) ==
  IF n = 0 THEN 0
  ELSE AmountOfYear(ls, y, n - 1) + (IF ls[n][4][3] = y THEN ls[n][3] ELSE 0)

\* The cadence of a subscriber whose lines have the days given, when no line
\* raised: one-off for a single line, else by the last day-delta.
CadenceOfDays(days) ==
  IF Len(days) = 1 THEN "one-off"
  ELSE LET d == days[Len(days)] - days[Len(days) - 1] IN
       IF d <= 27 THEN "daily" ELSE IF d <= 31 THEN "monthly" ELSE "yearly"

\* The dictionaries cd and yd and the list l3 are what the rows ls determine
\* through each subscriber's own lines in their own order, the amounts of
\* each year and the set of years; how the lines of different subscribers are
\* interleaved in ls does not enter.
DeterminedByOwnLines(ls, cd, yd, l3) ==
  /\ DOMAIN cd = {ls[i][2] : i \in 1..Len(ls)}
  /\ \A id \in DOMAIN cd :
       LET days == DaysIn(ls, id, Len(ls)) IN
       cd[id] = <<CadenceOfDays(days), Len(days), LastOf(ls, id)[4]>>
  /\ DOMAIN yd = {ls[i][4][3] : i \in 1..Len(ls)}
  /\ \A y \in DOMAIN yd : yd[y] = AmountOfYear(ls, y, Len(ls))
  /\ l3 = ThreeLargest({ls[i][4][3] : i \in 1..Len(ls)})

\* A step that ingests a line changes the entry of no other subscriber.
OthersUnchanged ==
  Ingests =>
    \A id \in (DOMAIN client_dict) \ {Ingested[2]} :
      id \in DOMAIN client_dict' /\ client_dict'[id] = client_dict[id]

\* C17: while no line raises, the dictionary of clients, the yearly revenue
\* and the list of the last three years are determined by the data rows of
\* the file through each subscriber's own rows in their own order, so two
\* files that interleave the same rows of each subscriber end in the same
\* state; and ingesting a row of one subscriber changes no other entry.
C17_InterleavingIndependent ==
  [][/\ raised' = "" =>
          DeterminedByOwnLines(RowsOf(read'), client_dict', year_dict',
                               last_three_years')
     /\ OthersUnchanged]_vars

\* The same for the lines that reach _process_line instead of the data rows
\* of the file; the two differ by a first data row that starts with Id.
InterleavingIndependentOfIngested ==
  [][/\ raised' = "" =>
          DeterminedByOwnLines(ingested', client_dict', year_dict',
                               last_three_years')
     /\ OthersUnchanged]_vars

\* C18: a line on which _set_type raises InvalidDateTypeError is a line of a
\* known subscriber, and in the state the exception leaves behind the amount
\* of the line is added to the revenue of its year, the list of the last
\* three years includes that year, the subscriber's duration counts the line,
\* and the subscriber's type and date are those from before the line.
C18_IngestNotAtomicOnFailure ==
  [][(Ingests /\ raised' = "InvalidDateTypeError") =>
       LET id == Ingested[2]
           y == Ingested[4][3] IN
       /\ id \in DOMAIN client_dict
       /\ client_dict'[id][1] = client_dict[id][1]
       /\ client_dict'[id][2] = client_dict[id][2] + 1
       /\ client_dict'[id][2] = CountOf(ingested', id)
       /\ client_dict'[id][3] = client_dict[id][3]
       /\ y \in DOMAIN year_dict'
       /\ year_dict'[y] =
            (IF y \in DOMAIN year_dict THEN year_dict[y] ELSE 0) + Ingested[3]
       /\ last_three_years' = ThreeLargest((DOMAIN year_dict) \cup {y})]_vars

\* C18 witness: the second line of a subscriber, dated in a new year and
\* before the first line's date, raised; the new year is in the revenue and
\* in the list of years, the duration is 2, the type is still one-off and the
\* date is still the first line's.
C18_Witness ==
  /\ raised = "InvalidDateTypeError"
  /\ Len(ingested) = 2
  /\ ingested[1][2] = ingested[2][2]
  /\ ingested[2][4][3] < ingested[1][4][3]
  /\ client_dict[ingested[1][2]] = <<"one-off", 2, ingested[1][4]>>
  /\ year_dict[ingested[2][4][3]] = ingested[2][3]
  /\ last_three_years = <<0, ingested[2][4][3], ingested[1][4][3]>>

====
